---- MODULE Spec2Model ----
(***************************************************************************)
(* OLT fleet poller (Huawei MA5800, ZTE C600, Fiberhome AN6000 scripts).   *)
(*                                                                         *)
(* One run of a vendor script: main() reads the address list, dispatches   *)
(* collect_olt_data(ip) for every address on a ThreadPoolExecutor, appends *)
(* the records in completion order, sorts them by address and prints the   *)
(* fleet summary.                                                          *)
(*                                                                         *)
(* Text is modelled as Python sees it: a str is a sequence of one-character*)
(* strings, and every parsing step (strip, split, the regular expressions) *)
(* is computed on those characters.                                        *)
(***************************************************************************)
EXTENDS Integers, Sequences, FiniteSets, TLC

\* ------------------------------------------------------------------ text

\* Python's None, as returned by run_snmp_command when the query failed.
None == <<"<None>">>

\* A missing cell of the DataFrame built from the result dicts.
NaN == <<"<NaN>">>

Digits == {"0", "1", "2", "3", "4", "5", "6", "7", "8", "9"}

UpperLetters ==
  <<"A", "B", "C", "D", "E", "F", "G", "H", "I", "J", "K", "L", "M",
    "N", "O", "P", "Q", "R", "S", "T", "U", "V", "W", "X", "Y", "Z">>

LowerLetters ==
  <<"a", "b", "c", "d", "e", "f", "g", "h", "i", "j", "k", "l", "m",
    "n", "o", "p", "q", "r", "s", "t", "u", "v", "w", "x", "y", "z">>

Letters == {UpperLetters[i] : i \in 1..26} \cup {LowerLetters[i] : i \in 1..26}

\* The characters str.strip() removes and \s matches.
Whitespace == {" ", "\t", "\n", "\r", "\f"}

\* bool(output) is False for None and for the empty string.
\* "if output is None" in place of "if not output".
FalsyNoneOnly(output) == output = None

Falsy(output) == output = None \/ output = <<>>

\* str.lower(), one character.
LowerChar(c) ==
  IF \E i \in 1..26 : UpperLetters[i] = c
  THEN LowerLetters[CHOOSE i \in 1..26 : UpperLetters[i] = c]
  ELSE c

lower(s) == [i \in 1..Len(s) |-> LowerChar(s[i])]

\* Length of the longest run of characters in chars that starts at s[i].
RECURSIVE RunIn(_, _, _)
RunIn(s, i, chars) ==
  IF i <= Len(s) /\ s[i] \in chars THEN 1 + RunIn(s, i + 1, chars) ELSE 0

\* Length of the longest run of characters not in chars that starts at s[i].
RECURSIVE RunNotIn(_, _, _)
RunNotIn(s, i, chars) ==
  IF i <= Len(s) /\ s[i] \notin chars THEN 1 + RunNotIn(s, i + 1, chars) ELSE 0

\* Length of the longest run of characters in chars that ends at s[i].
RECURSIVE RunBack(_, _, _)
RunBack(s, i, chars) ==
  IF i >= 1 /\ s[i] \in chars THEN 1 + RunBack(s, i - 1, chars) ELSE 0

\* Length of the longest prefix of s whose characters are all in chars.
PrefixIn(s, chars) == RunIn(s, 1, chars)

\* Length of the longest prefix of s with no character in chars.
PrefixNotIn(s, chars) == RunNotIn(s, 1, chars)

lstrip(s, chars) == SubSeq(s, RunIn(s, 1, chars) + 1, Len(s))

rstrip(s, chars) == SubSeq(s, 1, Len(s) - RunBack(s, Len(s), chars))

\* s.strip(chars); s.strip() is strip(s, Whitespace).
strip(s, chars) == rstrip(lstrip(s, chars), chars)

\* sub in s
Contains(s, sub) ==
  \E i \in 1..(Len(s) - Len(sub) + 1) : SubSeq(s, i, i + Len(sub) - 1) = sub

\* Position of the first c in s at or after position i, 0 when there is none.
FindFrom(s, c, i) ==
  LET n == RunNotIn(s, i, {c}) IN IF i + n > Len(s) THEN 0 ELSE i + n

\* Position of the first c in s, 0 when there is none.
Find(s, c) == FindFrom(s, c, 1)

\* s.split(c): the pieces between every occurrence of c, from position i on.
RECURSIVE SplitFrom(_, _, _)
SplitFrom(s, c, i) ==
  LET j == FindFrom(s, c, i)
  IN IF j = 0
     THEN <<SubSeq(s, i, Len(s))>>
     ELSE <<SubSeq(s, i, j - 1)>> \o SplitFrom(s, c, j + 1)

split(s, c) == SplitFrom(s, c, 1)

\* s.split(c, 1): at most one split, at the first c.
split1(s, c) ==
  LET i == Find(s, c)
  IN IF i = 0
     THEN <<s>>
     ELSE <<SubSeq(s, 1, i - 1), SubSeq(s, i + 1, Len(s))>>

\* s.split(): the maximal runs of non-whitespace characters, from s[i] on.
RECURSIVE SplitWsFrom(_, _)
SplitWsFrom(s, i) ==
  LET start == i + RunIn(s, i, Whitespace)
      n == RunNotIn(s, start, Whitespace)
  IN IF start > Len(s)
     THEN <<>>
     ELSE <<SubSeq(s, start, start + n - 1)>> \o SplitWsFrom(s, start + n)

split_ws(s) == SplitWsFrom(s, 1)

\* re.sub(r'^[A-Za-z\-]+:\s*', '', s): drop a leading type tag.
strip_tag(s) ==
  LET n == PrefixIn(s, Letters \cup {"-"})
  IN IF n >= 1 /\ n < Len(s) /\ s[n + 1] = ":"
     THEN lstrip(SubSeq(s, n + 2, Len(s)), Whitespace)
     ELSE s

\* s matches \d+(?:\.\d+)* as a whole.
DottedDigits(s) ==
  /\ s # <<>>
  /\ \A i \in 1..Len(s) : s[i] \in Digits \cup {"."}
  /\ s[1] # "." /\ s[Len(s)] # "."
  /\ \A i \in 1..(Len(s) - 1) : ~(s[i] = "." /\ s[i + 1] = ".")

\* Number of "." in s.
RECURSIVE Dots(_)
Dots(s) ==
  IF s = <<>> THEN 0 ELSE (IF Head(s) = "." THEN 1 ELSE 0) + Dots(Tail(s))

\* str.upper(), one character.
UpperChar(c) ==
  IF \E i \in 1..26 : LowerLetters[i] = c
  THEN UpperLetters[CHOOSE i \in 1..26 : LowerLetters[i] = c]
  ELSE c

upper(s) == [i \in 1..Len(s) |-> UpperChar(s[i])]

DigitValue(c) == CHOOSE n \in 0..9 : <<"0", "1", "2", "3", "4", "5", "6", "7", "8", "9">>[n + 1] = c

\* int(s) succeeds: an optional sign, then decimal digits with single
\* underscores allowed between digits (s is already stripped).
IsIntText(s) ==
  LET body == IF s # <<>> /\ Head(s) \in {"+", "-"} THEN Tail(s) ELSE s
  IN /\ body # <<>>
     /\ \A i \in 1..Len(body) : body[i] \in Digits \cup {"_"}
     /\ body[1] # "_" /\ body[Len(body)] # "_"
     /\ \A i \in 1..(Len(body) - 1) : ~(body[i] = "_" /\ body[i + 1] = "_")

\* The value of the decimal digits of s, underscores skipped.
RECURSIVE DecimalValue(_)
DecimalValue(s) ==
  IF s = <<>> THEN 0
  ELSE IF s[Len(s)] = "_" THEN DecimalValue(SubSeq(s, 1, Len(s) - 1))
  ELSE 10 * DecimalValue(SubSeq(s, 1, Len(s) - 1)) + DigitValue(s[Len(s)])

\* int(s), for a text IsIntText accepts.
int(s) ==
  IF Head(s) = "-" THEN 0 - DecimalValue(Tail(s))
  ELSE IF Head(s) = "+" THEN DecimalValue(Tail(s))
  ELSE DecimalValue(s)

\* str(n) for n >= 0.
RECURSIVE str(_)
str(n) ==
  LET d == <<<<"0", "1", "2", "3", "4", "5", "6", "7", "8", "9">>[(n % 10) + 1]>>
  IN IF n < 10 THEN d ELSE str(n \div 10) \o d

\* ---------------------------------------------------------- the vendors

Vendors == {"huawei", "zte", "fiberhome"}

\* ------------------------------------------------------- response parser

\* oid_part.split('.')[-1]
LastComponent(oid_part) ==
  LET parts == split(oid_part, ".") IN parts[Len(parts)]

\* The full_index pattern of the Huawei script, whatever the vendor.
FullIndexMatchHuawei(vendor, oid_part) ==
  LET ok(i) ==
        /\ oid_part[i] = "."
        /\ DottedDigits(SubSeq(oid_part, i + 1, Len(oid_part)))
      hits == {i \in 1..Len(oid_part) : ok(i)}
  IN IF hits = {} THEN 0 ELSE CHOOSE i \in hits : \A j \in hits : i <= j

\* re.search(pattern, oid_part) of the full_index branch: the position of the
\* "." that starts the leftmost match, 0 when the pattern does not match.
\*   huawei, fiberhome: r'\.(\d+(?:\.\d+)*)$'     zte: r'\.(\d+\.\d+)$'
FullIndexMatch(vendor, oid_part) ==
  LET ok(i) ==
        /\ oid_part[i] = "."
        /\ DottedDigits(SubSeq(oid_part, i + 1, Len(oid_part)))
        /\ vendor = "zte" => Dots(SubSeq(oid_part, i + 1, Len(oid_part))) = 1
      hits == {i \in 1..Len(oid_part) : ok(i)}
  IN IF hits = {} THEN 0 ELSE CHOOSE i \in hits : \A j \in hits : i <= j

\* The table index parse_snmp_output derives from the identifier part.
TableIndex(vendor, oid_part, full_index) ==
  LET m == FullIndexMatch(vendor, oid_part)
  IN IF full_index /\ m # 0
     THEN SubSeq(oid_part, m + 1, Len(oid_part))
     ELSE LastComponent(oid_part)

\* value_part with the type tag, the quotes and the blanks stripped.
NormalizeValue(value_part) ==
  strip(strip(strip_tag(value_part), {"\""}), Whitespace)

\* data[index] = value
DictSet(data, index, value) ==
  [k \in DOMAIN data \cup {index} |-> IF k = index THEN value ELSE data[k]]

\* The loop of parse_snmp_output over the lines, from line n on.
RECURSIVE ParseLines(_, _, _, _, _)
ParseLines(vendor, lines, n, full_index, data) ==
  IF n > Len(lines) THEN data
  ELSE LET line == lines[n]
           parts == split1(line, "=")
       IN IF Find(line, "=") = 0
          THEN ParseLines(vendor, lines, n + 1, full_index, data)
          ELSE ParseLines(vendor, lines, n + 1, full_index,
                 DictSet(data,
                         TableIndex(vendor, strip(parts[1], Whitespace), full_index),
                         NormalizeValue(strip(parts[2], Whitespace))))

\* parse_snmp_output(output, full_index): the dict index -> value, as a function.
parse_snmp_output(vendor, output, full_index) ==
  IF Falsy(output) THEN <<>>
  ELSE ParseLines(vendor, split(strip(output, Whitespace), "\n"), 1, full_index, <<>>)

\* len(d) and the number of values of d that satisfy a test.
DictLen(d) == Cardinality(DOMAIN d)

CountValues(d, wanted) == Cardinality({k \in DOMAIN d : d[k] \in wanted})

\* ------------------------------------------------------- vendor adapters

Unknown == <<"U", "n", "k", "n", "o", "w", "n">>

\* The IndexError that parts[1].strip().split()[0] raises on an empty list.
IndexError == <<"<IndexError>">>

\* s[i:i+len(lit)] == lit
StartsAt(s, i, lit) ==
  i + Len(lit) - 1 <= Len(s) /\ SubSeq(s, i, i + Len(lit) - 1) = lit

\* The leftmost of the positions where the pattern matches, 0 when there
\* is none: where re.search finds its match.
Leftmost(hits) ==
  IF hits = {} THEN 0 ELSE CHOOSE i \in hits : \A j \in hits : i <= j

\* The text from position i on.
From(s, i) == SubSeq(s, i, Len(s))

\* parts = output.split('='); parts[1].strip().split()[0], when len(parts) > 1:
\* the first token after the first "=", IndexError when there is none.
FirstTokenAfterEquals(output) ==
  LET parts == split(output, "=")
      tokens == split_ws(strip(parts[2], Whitespace))
  IN IF tokens = <<>> THEN IndexError ELSE tokens[1]

\* get_olt_model of the Huawei script, on the response to the sysDescr query.
get_olt_model_huawei(output) ==
  LET lit == <<"M", "A", "5", "8", "0", "0", "-">>
      Hit(i) == StartsAt(output, i, lit) /\ i + Len(lit) <= Len(output)
                /\ output[i + Len(lit)] \notin Whitespace
      m == Leftmost({i \in 1..Len(output) : Hit(i)})
  IN IF Falsy(output) THEN Unknown
     ELSE IF m # 0
     THEN SubSeq(output, m, m + Len(lit) - 1
                            + PrefixNotIn(From(output, m + Len(lit)), Whitespace))
     ELSE IF Len(split(output, "=")) > 1 THEN FirstTokenAfterEquals(output)
     ELSE Unknown

\* get_olt_model of the Fiberhome script.
get_olt_model_fiberhome(output) ==
  LET lit == <<"a", "n", "6", "0", "0", "0">>
      low == lower(output)
      Hit(i) == StartsAt(low, i, lit)
      m == Leftmost({i \in 1..Len(output) : Hit(i)})
  IN IF Falsy(output) THEN Unknown
     ELSE IF m # 0
     THEN SubSeq(output, m, m + Len(lit) - 1
                   + PrefixNotIn(From(output, m + Len(lit)), Whitespace \cup {","}))
     ELSE IF /\ Contains(low, <<"f", "i", "b", "e", "r", "h", "o", "m", "e">>)
             /\ Len(split(output, "=")) > 1
     THEN FirstTokenAfterEquals(output)
     ELSE Unknown

\* get_olt_model of the ZTE script.
get_olt_model_zte(output) ==
  LET HitC(i) == /\ i + 3 <= Len(output)
                 /\ LowerChar(output[i]) = "c"
                 /\ output[i + 1] = "6"
                 /\ output[i + 2] \in {"0", "1", "2"}
                 /\ output[i + 3] = "0"
      c == Leftmost({i \in 1..Len(output) : HitC(i)})
      lit == <<"Z", "X", "A", "1", "0">>
      HitZ(i) == StartsAt(output, i, lit) /\ i + Len(lit) <= Len(output)
                 /\ output[i + Len(lit)] \notin Whitespace \cup {","}
      z == Leftmost({i \in 1..Len(output) : HitZ(i)})
  IN IF Falsy(output) THEN Unknown
     ELSE IF c # 0 THEN <<"Z", "T", "E", "-">> \o SubSeq(output, c, c + 3)
     ELSE IF z # 0
     THEN SubSeq(output, z, z + Len(lit) - 1
                   + PrefixNotIn(From(output, z + Len(lit)), Whitespace \cup {","}))
     ELSE IF \/ Contains(output, lit)
             \/ Contains(output, <<"C", "6", "0", "0">>)
             \/ Contains(output, <<"C", "6", "2", "0">>)
     THEN <<"Z", "T", "E", "-", "C", "6", "0", "0">>
     ELSE Unknown

\* get_olt_model(ip), given the response to its query: a text, or IndexError.
get_olt_model(vendor, output) ==
  CASE vendor = "huawei" -> get_olt_model_huawei(output)
    [] vendor = "zte" -> get_olt_model_zte(output)
    [] vendor = "fiberhome" -> get_olt_model_fiberhome(output)

\* get_olt_sysname(ip), given the response to its query (the same in the
\* three scripts).
get_olt_sysname(output) ==
  IF ~Falsy(output) /\ Len(split(output, "=")) > 1
  THEN strip(strip(strip_tag(strip(split(output, "=")[2], Whitespace)), {"\""}),
             Whitespace)
  ELSE Unknown

Zero == [installed |-> 0, used |-> 0]

ZeroOnt == [installed |-> 0, online |-> 0]

\* Huawei get_board_status, given the walk of hwBoardOperStatus.
get_board_status_huawei(oper_output) ==
  LET oper_status == parse_snmp_output("huawei", oper_output, FALSE)
      installed == DictLen(oper_status)
      used == CountValues(oper_status, {<<"0">>})
  IN IF ~Falsy(oper_output) /\ installed > 0
     THEN [installed |-> installed, used |-> used]
     ELSE Zero

\* Fiberhome get_board_status, given the walks of the card status and the
\* card type tables (the second is queried only when the first gave no row).
get_board_status_fiberhome(status_output, type_output) ==
  LET statuses == parse_snmp_output("fiberhome", status_output, FALSE)
      types == parse_snmp_output("fiberhome", type_output, FALSE)
  IN IF ~Falsy(status_output) /\ DictLen(statuses) > 0
     THEN [installed |-> DictLen(statuses),
           used |-> CountValues(statuses, {<<"1">>})]
     ELSE IF ~Falsy(type_output)
     THEN [installed |-> DictLen(types), used |-> DictLen(types)]
     ELSE Zero

\* The index shifted by a byte, without the mask.
decode_without_mask(ifindex) ==
  IF IsIntText(strip(ifindex, Whitespace))
  THEN str(int(strip(ifindex, Whitespace)) \div 256)
  ELSE None

\* decode_zte_ifindex(ifindex): str((int(ifindex) >> 8) & 0xFF), None when
\* int() raises.
decode_zte_ifindex(ifindex) ==
  IF IsIntText(strip(ifindex, Whitespace))
  THEN str((int(strip(ifindex, Whitespace)) \div 256) % 256)
  ELSE None

\* ZTE get_board_status with a slot number in place of its text: slot 0
\* fails the test "if slot".
get_board_status_zte_slot_number(type_output, admin_output) ==
  LET types == parse_snmp_output("zte", type_output, FALSE)
      admin_status == IF ~Falsy(admin_output)
                      THEN parse_snmp_output("zte", admin_output, FALSE)
                      ELSE <<>>
      gpon == {idx \in DOMAIN types :
                 types[idx] = <<"2", "5", "0">>
                 /\ decode_zte_ifindex(idx) \notin {None, <<"0">>}}
      cards == {decode_zte_ifindex(idx) : idx \in gpon}
      active_cards ==
        {decode_zte_ifindex(idx) :
           idx \in {i \in gpon : i \in DOMAIN admin_status
                                 /\ admin_status[i] = <<"1">>}}
  IN IF ~Falsy(type_output) /\ Cardinality(cards) > 0
     THEN [installed |-> Cardinality(cards), used |-> Cardinality(active_cards)]
     ELSE Zero

\* ZTE get_board_status, given the walks of ifType and ifAdminStatus.
get_board_status_zte(type_output, admin_output) ==
  LET types == parse_snmp_output("zte", type_output, FALSE)
      admin_status == IF ~Falsy(admin_output)
                      THEN parse_snmp_output("zte", admin_output, FALSE)
                      ELSE <<>>
      gpon == {idx \in DOMAIN types :
                 types[idx] = <<"2", "5", "0">>
                 /\ ~Falsy(decode_zte_ifindex(idx))}
      cards == {decode_zte_ifindex(idx) : idx \in gpon}
      active_cards ==
        {decode_zte_ifindex(idx) :
           idx \in {i \in gpon : i \in DOMAIN admin_status
                                 /\ admin_status[i] = <<"1">>}}
  IN IF ~Falsy(type_output) /\ Cardinality(cards) > 0
     THEN [installed |-> Cardinality(cards), used |-> Cardinality(active_cards)]
     ELSE Zero

\* get_board_status(ip), given the responses to its (up to) two walks.
get_board_status(vendor, first, second) ==
  CASE vendor = "huawei" -> get_board_status_huawei(first)
    [] vendor = "zte" -> get_board_status_zte(first, second)
    [] vendor = "fiberhome" -> get_board_status_fiberhome(first, second)

\* get_pon_port_status that gives up only when the ifType walk fails.
get_pon_port_status_types_only(vendor, type_output, oper_output) ==
  LET types == parse_snmp_output(vendor, type_output, FALSE)
      oper_status == parse_snmp_output(vendor, oper_output, FALSE)
      gpon == {idx \in DOMAIN types : types[idx] = <<"2", "5", "0">>}
  IN IF Falsy(type_output)
     THEN Zero
     ELSE [installed |-> Cardinality(gpon),
           used |-> Cardinality({idx \in gpon :
                                   idx \in DOMAIN oper_status
                                   /\ oper_status[idx] = <<"1">>})]

\* get_pon_port_status that takes ifType 6 for the GPON type.
get_pon_port_status_type_6(vendor, type_output, oper_output) ==
  LET types == parse_snmp_output(vendor, type_output, FALSE)
      oper_status == parse_snmp_output(vendor, oper_output, FALSE)
      gpon == {idx \in DOMAIN types : types[idx] = <<"6">>}
  IN IF Falsy(type_output) \/ Falsy(oper_output)
     THEN Zero
     ELSE [installed |-> Cardinality(gpon),
           used |-> Cardinality({idx \in gpon :
                                   idx \in DOMAIN oper_status
                                   /\ oper_status[idx] = <<"1">>})]

\* Huawei and ZTE get_pon_port_status, given the walks of ifType and
\* ifOperStatus.
get_pon_port_status_iftable(vendor, type_output, oper_output) ==
  LET types == parse_snmp_output(vendor, type_output, FALSE)
      oper_status == parse_snmp_output(vendor, oper_output, FALSE)
      gpon == {idx \in DOMAIN types : types[idx] = <<"2", "5", "0">>}
  IN IF Falsy(type_output) \/ Falsy(oper_output)
     THEN Zero
     ELSE [installed |-> Cardinality(gpon),
           used |-> Cardinality({idx \in gpon :
                                   idx \in DOMAIN oper_status
                                   /\ oper_status[idx] = <<"1">>})]

\* Fiberhome get_pon_port_status, given the walks of the PON port type and
\* the PON port name tables.
get_pon_port_status_fiberhome(type_output, name_output) ==
  LET types == parse_snmp_output("fiberhome", type_output, FALSE)
      names == parse_snmp_output("fiberhome", name_output, FALSE)
      installed == CountValues(types, {<<"1">>})
  IN IF Falsy(type_output) THEN Zero
     ELSE [installed |-> installed,
           used |-> IF ~Falsy(name_output)
                    THEN Cardinality({k \in DOMAIN names :
                                        Contains(upper(names[k]), <<"P", "O", "N">>)})
                    ELSE installed]

\* get_pon_port_status(ip), given the responses to its two walks.
get_pon_port_status(vendor, first, second) ==
  IF vendor = "fiberhome"
  THEN get_pon_port_status_fiberhome(first, second)
  ELSE get_pon_port_status_iftable(vendor, first, second)

\* get_ont_status with status 1 as the only online code of every vendor.
get_ont_status_one_code(vendor, output) ==
  LET statuses == parse_snmp_output(vendor, output, vendor # "fiberhome")
  IN IF Falsy(output) THEN ZeroOnt
     ELSE IF vendor = "fiberhome"
     THEN [installed |-> Cardinality({k \in DOMAIN statuses :
                                        statuses[k] # <<"0">>}),
           online |-> CountValues(statuses, {<<"1">>})]
     ELSE [installed |-> DictLen(statuses),
           online |-> CountValues(statuses, {<<"1">>})]

\* get_ont_status with every row of the Fiberhome table counted as installed.
get_ont_status_all_rows(vendor, output) ==
  LET statuses == parse_snmp_output(vendor, output, vendor # "fiberhome")
  IN IF Falsy(output) THEN ZeroOnt
     ELSE IF vendor = "zte"
     THEN [installed |-> DictLen(statuses),
           online |-> CountValues(statuses, {<<"1">>, <<"3">>, <<"4">>})]
     ELSE [installed |-> DictLen(statuses),
           online |-> CountValues(statuses, {<<"1">>})]

\* get_ont_status / get_onu_status (ip), given the walk of the status table.
get_ont_status(vendor, output) ==
  LET statuses == parse_snmp_output(vendor, output, vendor # "fiberhome")
  IN IF Falsy(output) THEN ZeroOnt
     ELSE CASE vendor = "huawei" ->
                 [installed |-> DictLen(statuses),
                  online |-> CountValues(statuses, {<<"1">>})]
            [] vendor = "zte" ->
                 [installed |-> DictLen(statuses),
                  online |-> CountValues(statuses, {<<"1">>, <<"3">>, <<"4">>})]
            [] vendor = "fiberhome" ->
                 [installed |-> Cardinality({k \in DOMAIN statuses :
                                               statuses[k] # <<"0">>}),
                  online |-> CountValues(statuses, {<<"1">>})]

\* ------------------------------------------------- transport responses

\* Response texts of a working device, per vendor.
HwDescr ==
  <<"s", "y", "s", "D", "e", "s", "c", "r", ".", "0", " ", "=", " ",
    "S", "T", "R", "I", "N", "G", ":", " ", "M", "A", "5", "8", "0",
    "0", "-", "X", "7">>

HwBoardOper ==
  <<"b", ".", "0", " ", "=", " ", "I", "N", "T", "E", "G", "E", "R",
    ":", " ", "0", "\n", "b", ".", "1", " ", "=", " ", "I", "N", "T",
    "E", "G", "E", "R", ":", " ", "2", "\n", "b", ".", "2", " ", "=",
    " ", "I", "N", "T", "E", "G", "E", "R", ":", " ", "0">>

HwIfType ==
  <<"t", ".", "1", " ", "=", " ", "I", "N", "T", "E", "G", "E", "R",
    ":", " ", "2", "5", "0", "\n", "t", ".", "2", " ", "=", " ", "I",
    "N", "T", "E", "G", "E", "R", ":", " ", "2", "5", "0", "\n", "t",
    ".", "3", " ", "=", " ", "I", "N", "T", "E", "G", "E", "R", ":",
    " ", "6">>

HwIfOper ==
  <<"s", ".", "1", " ", "=", " ", "I", "N", "T", "E", "G", "E", "R",
    ":", " ", "1", "\n", "s", ".", "2", " ", "=", " ", "I", "N", "T",
    "E", "G", "E", "R", ":", " ", "2", "\n", "s", ".", "3", " ", "=",
    " ", "I", "N", "T", "E", "G", "E", "R", ":", " ", "1">>

HwOntRun ==
  <<"o", ".", "0", ".", "1", ".", "1", " ", "=", " ", "I", "N", "T",
    "E", "G", "E", "R", ":", " ", "1", "\n", "o", ".", "0", ".", "1",
    ".", "2", " ", "=", " ", "I", "N", "T", "E", "G", "E", "R", ":",
    " ", "0", "\n", "o", ".", "0", ".", "2", ".", "1", " ", "=", " ",
    "I", "N", "T", "E", "G", "E", "R", ":", " ", "1">>

ZteDescr ==
  <<"s", "y", "s", "D", "e", "s", "c", "r", ".", "0", " ", "=", " ",
    "S", "T", "R", "I", "N", "G", ":", " ", "Z", "X", "A", "1", "0",
    " ", "C", "6", "0", "0", ",", " ", "Z", "T", "E">>

ZteIfType ==
  <<"t", ".", "2", "8", "5", "2", "7", "8", "4", "6", "5", " ", "=",
    " ", "I", "N", "T", "E", "G", "E", "R", ":", " ", "2", "5", "0",
    "\n", "t", ".", "2", "8", "5", "2", "7", "8", "4", "6", "6", " ",
    "=", " ", "I", "N", "T", "E", "G", "E", "R", ":", " ", "2", "5",
    "0", "\n", "t", ".", "2", "8", "5", "2", "7", "8", "7", "2", "1",
    " ", "=", " ", "I", "N", "T", "E", "G", "E", "R", ":", " ", "2",
    "5", "0", "\n", "t", ".", "1", " ", "=", " ", "I", "N", "T", "E",
    "G", "E", "R", ":", " ", "6">>

ZteIfAdmin ==
  <<"a", ".", "2", "8", "5", "2", "7", "8", "4", "6", "5", " ", "=",
    " ", "I", "N", "T", "E", "G", "E", "R", ":", " ", "1", "\n", "a",
    ".", "2", "8", "5", "2", "7", "8", "4", "6", "6", " ", "=", " ",
    "I", "N", "T", "E", "G", "E", "R", ":", " ", "2", "\n", "a", ".",
    "2", "8", "5", "2", "7", "8", "7", "2", "1", " ", "=", " ", "I",
    "N", "T", "E", "G", "E", "R", ":", " ", "2">>

ZteIfOper ==
  <<"s", ".", "2", "8", "5", "2", "7", "8", "4", "6", "5", " ", "=",
    " ", "I", "N", "T", "E", "G", "E", "R", ":", " ", "1", "\n", "s",
    ".", "2", "8", "5", "2", "7", "8", "4", "6", "6", " ", "=", " ",
    "I", "N", "T", "E", "G", "E", "R", ":", " ", "1", "\n", "s", ".",
    "2", "8", "5", "2", "7", "8", "7", "2", "1", " ", "=", " ", "I",
    "N", "T", "E", "G", "E", "R", ":", " ", "2">>

ZteOnuStatus ==
  <<"o", ".", "2", "8", "5", "2", "7", "8", "4", "6", "5", ".", "1",
    " ", "=", " ", "I", "N", "T", "E", "G", "E", "R", ":", " ", "4",
    "\n", "o", ".", "2", "8", "5", "2", "7", "8", "4", "6", "5", ".",
    "2", " ", "=", " ", "I", "N", "T", "E", "G", "E", "R", ":", " ",
    "7", "\n", "o", ".", "2", "8", "5", "2", "7", "8", "4", "6", "6",
    ".", "1", " ", "=", " ", "I", "N", "T", "E", "G", "E", "R", ":",
    " ", "1">>

FhDescr ==
  <<"s", "y", "s", "D", "e", "s", "c", "r", ".", "0", " ", "=", " ",
    "S", "T", "R", "I", "N", "G", ":", " ", "F", "i", "b", "e", "r",
    "h", "o", "m", "e", " ", "A", "N", "6", "0", "0", "0", "-", "1",
    "7">>

FhCardStatus ==
  <<"c", ".", "1", " ", "=", " ", "I", "N", "T", "E", "G", "E", "R",
    ":", " ", "1", "\n", "c", ".", "2", " ", "=", " ", "I", "N", "T",
    "E", "G", "E", "R", ":", " ", "0">>

FhCardType ==
  <<"y", ".", "1", " ", "=", " ", "I", "N", "T", "E", "G", "E", "R",
    ":", " ", "5", "\n", "y", ".", "2", " ", "=", " ", "I", "N", "T",
    "E", "G", "E", "R", ":", " ", "5", "\n", "y", ".", "3", " ", "=",
    " ", "I", "N", "T", "E", "G", "E", "R", ":", " ", "7">>

FhPonType ==
  <<"p", ".", "1", " ", "=", " ", "I", "N", "T", "E", "G", "E", "R",
    ":", " ", "1", "\n", "p", ".", "2", " ", "=", " ", "I", "N", "T",
    "E", "G", "E", "R", ":", " ", "1", "\n", "p", ".", "3", " ", "=",
    " ", "I", "N", "T", "E", "G", "E", "R", ":", " ", "2">>

FhPonName ==
  <<"n", ".", "1", " ", "=", " ", "S", "T", "R", "I", "N", "G", ":",
    " ", "\"", "P", "O", "N", "1", "\"", "\n", "n", ".", "2", " ",
    "=", " ", "S", "T", "R", "I", "N", "G", ":", " ", "\"", "g", "e",
    "0", "\"">>

FhOnuStatus ==
  <<"u", ".", "1", " ", "=", " ", "I", "N", "T", "E", "G", "E", "R",
    ":", " ", "1", "\n", "u", ".", "2", " ", "=", " ", "I", "N", "T",
    "E", "G", "E", "R", ":", " ", "0", "\n", "u", ".", "3", " ", "=",
    " ", "I", "N", "T", "E", "G", "E", "R", ":", " ", "2">>

SysNameText ==
  <<"s", "y", "s", "N", "a", "m", "e", ".", "0", " ", "=", " ", "S",
    "T", "R", "I", "N", "G", ":", " ", "\"", "O", "L", "T", "-", "1",
    "\"">>

\* Other responses: a line with nothing after the "=", a description with
\* no vendor pattern, a text with no "=", a row that is no table row.
NoValueText ==
  <<"f", "i", "b", "e", "r", "h", "o", "m", "e", " ", "=">>

PlainDescr ==
  <<"s", "y", "s", "D", "e", "s", "c", "r", ".", "0", " ", "=", " ",
    "S", "T", "R", "I", "N", "G", ":", " ", "L", "i", "n", "u", "x">>

GarbageText ==
  <<"T", "i", "m", "e", "o", "u", "t">>

StrayText ==
  <<"x", " ", "=", " ", "y">>

\* The responses of the model, by name: transport holds the name of what a
\* query returns, Text gives the text (or None) run_snmp_command returns.
ResponseNames ==
  {"None", "Empty", "HwDescr", "HwBoardOper", "HwIfType", "HwIfOper",
   "HwOntRun", "ZteDescr", "ZteIfType", "ZteIfAdmin",
   "ZteIfOper", "ZteOnuStatus", "FhDescr", "FhCardStatus",
   "FhCardType", "FhPonType", "FhPonName", "FhOnuStatus",
   "SysNameText", "NoValueText", "PlainDescr", "GarbageText",
   "StrayText"}

Text(name) ==
  CASE name = "None" -> None
    [] name = "Empty" -> <<>>
    [] name = "HwDescr" -> HwDescr
    [] name = "HwBoardOper" -> HwBoardOper
    [] name = "HwIfType" -> HwIfType
    [] name = "HwIfOper" -> HwIfOper
    [] name = "HwOntRun" -> HwOntRun
    [] name = "ZteDescr" -> ZteDescr
    [] name = "ZteIfType" -> ZteIfType
    [] name = "ZteIfAdmin" -> ZteIfAdmin
    [] name = "ZteIfOper" -> ZteIfOper
    [] name = "ZteOnuStatus" -> ZteOnuStatus
    [] name = "FhDescr" -> FhDescr
    [] name = "FhCardStatus" -> FhCardStatus
    [] name = "FhCardType" -> FhCardType
    [] name = "FhPonType" -> FhPonType
    [] name = "FhPonName" -> FhPonName
    [] name = "FhOnuStatus" -> FhOnuStatus
    [] name = "SysNameText" -> SysNameText
    [] name = "NoValueText" -> NoValueText
    [] name = "PlainDescr" -> PlainDescr
    [] name = "GarbageText" -> GarbageText
    [] name = "StrayText" -> StrayText

\* ------------------------------------------------------------ the state

\* MAX_WORKERS of the scripts: the size of the ThreadPoolExecutor.
MAX_WORKERS == 5

VARIABLES
  vendor,          \* which of the three scripts is run
  olt_txt,         \* the address lines of olt.txt, stripped and comment-free
  transport,       \* address -> query site -> what run_snmp_command returns
  dispatch_fault,  \* address -> description of the fault its dispatch raises
  main_pc,         \* where main() is: "read", "collect", "done", "exit"
  ip_list,         \* ip_list of main()
  task,            \* one entry per submitted future: pc, result dict, exception
  yielded,         \* the futures as_completed has already yielded
  results,         \* results of main(), in completion order
  df,              \* the sorted DataFrame
  summary,         \* the totals main() prints
  steps,           \* how many steps the run has taken
  call             \* a function of the scripts called on its own: name, arguments, value

vars == <<vendor, olt_txt, transport, dispatch_fault, main_pc, ip_list, task,
          yielded, results, df, summary, steps, call>>

\* No function is being called on its own.
NoCall == [function |-> "none"]

\* The queries collect_olt_data issues for one device, in program order.
\* board1, board2 and pon1, pon2 are the walks of get_board_status and
\* get_pon_port_status (the Huawei get_board_status issues only the first).
Sites == {"probe", "sysname", "model", "board1", "board2", "pon1", "pon2", "ont"}

\* No fault is raised by the dispatch of this address.
NoFault == "<no fault>"

\* The result dict collect_olt_data starts from. The Fiberhome script names
\* the last two counters onu_installed and onu_online.
NewResult(ip) ==
  [ip |-> ip, sysname |-> <<>>, model |-> <<>>,
   board_installed |-> 0, board_used |-> 0,
   pon_port_installed |-> 0, pon_port_used |-> 0,
   ont_installed |-> 0, ont_online |-> 0,
   status |-> "error", error |-> ""]

Tasks == DOMAIN task

\* The futures a worker thread is executing.
Running == {i \in Tasks : task[i].pc \in {"probe", "sysname", "model", "board", "pon", "ont"}}

\* The futures that are done: the call returned or raised.
Finished == {i \in Tasks : task[i].pc \in {"returned", "raised"}}

\* --------------------------------------------------------------- main()

\* The address list dispatched as read, without list(set(...)).
KeepDuplicates(lines) == lines

\* list(set(ip_list)): the distinct addresses. Python leaves the order of a
\* set open; the model lists them by first occurrence, and the tasks may
\* start in any order.
RECURSIVE Dedup(_)
Dedup(lines) ==
  IF lines = <<>> THEN <<>>
  ELSE LET front == Dedup(SubSeq(lines, 1, Len(lines) - 1))
           last == lines[Len(lines)]
       IN IF \E i \in 1..Len(front) : front[i] = last
          THEN front
          ELSE Append(front, last)

\* main() reads olt.txt, removes the duplicates and submits one future per
\* address; with no address it prints an error and returns.
Load ==
  /\ main_pc = "read"
  /\ ip_list' = Dedup(olt_txt)
  /\ task' = [i \in 1..Len(ip_list') |->
                [pc |-> "queued", result |-> NewResult(ip_list'[i]), exc |-> ""]]
  /\ main_pc' = IF ip_list' = <<>> THEN "exit" ELSE "collect"
  /\ steps' = steps + 1
  /\ UNCHANGED <<call, vendor, olt_txt, transport, dispatch_fault, yielded, results,
                 df, summary>>

\* A pool whose workers are not handed back when their call is over.
PoolNeverFrees == Cardinality(Running \cup Finished) < MAX_WORKERS

\* A pool that admits one future more than it has workers.
PoolAdmitsOneMore == Cardinality(Running) <= MAX_WORKERS

\* A worker thread of the pool takes a queued future.
PoolHasIdleWorker == Cardinality(Running) < MAX_WORKERS

Start(i) ==
  /\ task[i].pc = "queued"
  /\ PoolHasIdleWorker
  /\ task' = [task EXCEPT ![i].pc = "probe"]
  /\ steps' = steps + 1
  /\ UNCHANGED <<call, vendor, olt_txt, transport, dispatch_fault, main_pc, ip_list,
                 yielded, results, df, summary>>

\* The call raises out of collect_olt_data: the future holds the exception.
Raise(i) ==
  /\ task[i].pc = "probe"
  /\ dispatch_fault[ip_list[i]] # NoFault
  /\ task' = [task EXCEPT ![i].pc = "raised",
                          ![i].exc = dispatch_fault[ip_list[i]]]
  /\ steps' = steps + 1
  /\ UNCHANGED <<call, vendor, olt_txt, transport, dispatch_fault, main_pc, ip_list,
                 yielded, results, df, summary>>

\* ----------------------------------------------------- collect_olt_data

Response(i, site) == Text(transport[ip_list[i]][site])

\* The result after the reachability probe failed.
ProbeFailed(result) == [result EXCEPT !.error = "timeout/unreachable"]

\* test = run_snmp_command(ip, OID_SYS_DESCR, walk=False); if not test: ...
Probe(i) ==
  /\ task[i].pc = "probe"
  /\ dispatch_fault[ip_list[i]] = NoFault
  /\ task' = IF Falsy(Response(i, "probe"))
             THEN [task EXCEPT ![i].pc = "returned",
                               ![i].result = ProbeFailed(@)]
             ELSE [task EXCEPT ![i].pc = "sysname"]
  /\ steps' = steps + 1
  /\ UNCHANGED <<call, vendor, olt_txt, transport, dispatch_fault, main_pc, ip_list,
                 yielded, results, df, summary>>

\* result["sysname"] = get_olt_sysname(ip)
Sysname(i) ==
  /\ task[i].pc = "sysname"
  /\ task' = [task EXCEPT ![i].pc = "model",
                          ![i].result.sysname = get_olt_sysname(Response(i, "sysname"))]
  /\ steps' = steps + 1
  /\ UNCHANGED <<call, vendor, olt_txt, transport, dispatch_fault, main_pc, ip_list,
                 yielded, results, df, summary>>

\* An except clause that returns a fresh record with the reason.
CaughtDiscarding(result, description) ==
  [NewResult(result.ip) EXCEPT !.error = description]

\* except Exception as e: result["error"] = str(e); return result
Caught(result, description) == [result EXCEPT !.error = description]

\* result["model"] = get_olt_model(ip); an IndexError it raises is caught by
\* the except clause of collect_olt_data.
Model(i) ==
  LET m == get_olt_model(vendor, Response(i, "model"))
  IN /\ task[i].pc = "model"
     /\ task' = IF m = IndexError
                THEN [task EXCEPT ![i].pc = "returned",
                                  ![i].result = Caught(@, "list index out of range")]
                ELSE [task EXCEPT ![i].pc = "board", ![i].result.model = m]
     /\ steps' = steps + 1
     /\ UNCHANGED <<call, vendor, olt_txt, transport, dispatch_fault, main_pc, ip_list,
                    yielded, results, df, summary>>

\* The board pair written the wrong way round.
SetBoardSwapped(result, board_status) ==
  [result EXCEPT !.board_installed = board_status.used,
                 !.board_used = board_status.installed]

\* board_status = get_board_status(ip) and the two assignments from it.
SetBoard(result, board_status) ==
  [result EXCEPT !.board_installed = board_status.installed,
                 !.board_used = board_status.used]

Board(i) ==
  /\ task[i].pc = "board"
  /\ task' = [task EXCEPT
                ![i].pc = "pon",
                ![i].result = SetBoard(@, get_board_status(vendor,
                                 Response(i, "board1"), Response(i, "board2")))]
  /\ steps' = steps + 1
  /\ UNCHANGED <<call, vendor, olt_txt, transport, dispatch_fault, main_pc, ip_list,
                 yielded, results, df, summary>>

\* The PON-port assignments written to the board keys.
SetPonOverBoard(result, pon_status) ==
  [result EXCEPT !.board_installed = pon_status.installed,
                 !.board_used = pon_status.used]

\* pon_status = get_pon_port_status(ip) and the two assignments from it.
SetPon(result, pon_status) ==
  [result EXCEPT !.pon_port_installed = pon_status.installed,
                 !.pon_port_used = pon_status.used]

Pon(i) ==
  /\ task[i].pc = "pon"
  /\ task' = [task EXCEPT
                ![i].pc = "ont",
                ![i].result = SetPon(@, get_pon_port_status(vendor,
                                 Response(i, "pon1"), Response(i, "pon2")))]
  /\ steps' = steps + 1
  /\ UNCHANGED <<call, vendor, olt_txt, transport, dispatch_fault, main_pc, ip_list,
                 yielded, results, df, summary>>

\* ont_status = get_ont_status(ip), the two assignments from it, and
\* result["status"] = "OK"; return result.
SetOnt(result, ont_status) ==
  [result EXCEPT !.ont_installed = ont_status.installed,
                 !.ont_online = ont_status.online,
                 !.status = "OK"]

Ont(i) ==
  /\ task[i].pc = "ont"
  /\ task' = [task EXCEPT
                ![i].pc = "returned",
                ![i].result = SetOnt(@, get_ont_status(vendor, Response(i, "ont")))]
  /\ steps' = steps + 1
  /\ UNCHANGED <<call, vendor, olt_txt, transport, dispatch_fault, main_pc, ip_list,
                 yielded, results, df, summary>>

\* ------------------------------------------------- main(), the summary

\* r.get(key, 0)
Get(r, key) == IF key \in DOMAIN r THEN r[key] ELSE 0

\* A summary that does not filter on the status.
AnyStatus(r) == TRUE

\* if r['status'] == 'OK'
IsOK(r) == r.status = "OK"

\* sum([r.get(key, 0) for r in results if r['status'] == 'OK'])
RECURSIVE SumOK(_, _)
SumOK(rs, key) ==
  IF rs = <<>> THEN 0
  ELSE (IF IsOK(Head(rs)) THEN Get(Head(rs), key) ELSE 0) + SumOK(Tail(rs), key)

\* len([r for r in results if r['status'] == 'OK'])
RECURSIVE CountOK(_)
CountOK(rs) ==
  IF rs = <<>> THEN 0
  ELSE (IF IsOK(Head(rs)) THEN 1 ELSE 0) + CountOK(Tail(rs))

\* The totals main() computes and prints after the run.
Summarize(rs) ==
  [total |-> Len(rs),
   success |-> CountOK(rs),
   failed |-> Len(rs) - CountOK(rs),
   board_installed |-> SumOK(rs, "board_installed"),
   board_used |-> SumOK(rs, "board_used"),
   pon_port_installed |-> SumOK(rs, "pon_port_installed"),
   pon_port_used |-> SumOK(rs, "pon_port_used"),
   ont_installed |-> SumOK(rs, "ont_installed"),
   ont_online |-> SumOK(rs, "ont_online")]

\* ----------------------------------------------- main(), the DataFrame

\* pd.DataFrame(results): one row per dict, one column per key of any dict,
\* NaN where a dict has no such key.
DataFrame(rs) ==
  LET columns == UNION {DOMAIN rs[i] : i \in 1..Len(rs)}
  IN [i \in 1..Len(rs) |->
        [c \in columns |-> IF c \in DOMAIN rs[i] THEN rs[i][c] ELSE NaN]]

\* ord(c), for the characters of an address.
ord(c) == IF c = "." THEN 46 ELSE 48 + DigitValue(c)

\* a < b on Python strings: by code point, a proper prefix first.
StrLess(a, b) ==
  \E k \in 1..Len(b) :
    /\ \A j \in 1..(k - 1) : j <= Len(a) /\ a[j] = b[j]
    /\ \/ k = Len(a) + 1
       \/ k <= Len(a) /\ ord(a[k]) < ord(b[k])

\* The rows in the order of the addresses' last octet read as a number
\* (shorter addresses first), in place of the order of the strings.
RECURSIVE SortRowsNumeric(_)
SortRowsNumeric(rows) ==
  IF rows = <<>> THEN <<>>
  ELSE LET front == SortRowsNumeric(SubSeq(rows, 1, Len(rows) - 1))
           row == rows[Len(rows)]
           Before(a, b) == Len(a) < Len(b) \/ (Len(a) = Len(b) /\ StrLess(a, b))
           n == Cardinality({k \in 1..Len(front) : ~Before(row.ip, front[k].ip)})
       IN SubSeq(front, 1, n) \o <<row>> \o SubSeq(front, n + 1, Len(front))

\* The rows in ascending order of their ip.
RECURSIVE SortRows(_)
SortRows(rows) ==
  IF rows = <<>> THEN <<>>
  ELSE LET front == SortRows(SubSeq(rows, 1, Len(rows) - 1))
           row == rows[Len(rows)]
           n == Cardinality({k \in 1..Len(front) : ~StrLess(row.ip, front[k].ip)})
       IN SubSeq(front, 1, n) \o <<row>> \o SubSeq(front, n + 1, Len(front))

\* The frame left in completion order.
unsorted(rows) == rows

\* df.sort_values('ip').reset_index(drop=True)
sort_values(rows) == SortRows(rows)

\* ------------------------------------------- main(), the collecting loop

\* {"ip": ip, "status": "error", "error": str(e)}
Synthesized(ip, description) ==
  [ip |-> ip, status |-> "error", error |-> description]

\* results.append(future.result()) without the except clause's record.
CollectedWithoutExcept(ip, t) == t.result

\* What main() appends for a future as_completed yields.
Collected(ip, t) ==
  IF t.pc = "returned" THEN t.result ELSE Synthesized(ip, t.exc)

\* One turn of "for future in as_completed(future_to_ip)".
Collect(i) ==
  /\ main_pc = "collect"
  /\ i \in Finished \ yielded
  /\ yielded' = yielded \cup {i}
  /\ results' = Append(results, Collected(ip_list[i], task[i]))
  /\ steps' = steps + 1
  /\ UNCHANGED <<call, vendor, olt_txt, transport, dispatch_fault, main_pc, ip_list,
                 task, df, summary>>

\* After the loop: the sorted DataFrame and the summary.
Finish ==
  /\ main_pc = "collect"
  /\ yielded = Tasks
  /\ df' = sort_values(DataFrame(results))
  /\ summary' = Summarize(results)
  /\ main_pc' = "done"
  /\ steps' = steps + 1
  /\ UNCHANGED <<call, vendor, olt_txt, transport, dispatch_fault, ip_list, task,
                 yielded, results>>

\* ------------------------------------------------------------ the inputs

\* Input sizes of the model.
MaxLines == 3

MaxDeviating == 2

\* Addresses; as strings "10.0.0.1" < "10.0.0.10" < "10.0.0.2".
Net == <<"1", "0", ".", "0", ".", "0", ".">>

Addr(n) == Net \o str(n)

FleetAddresses == {Addr(1), Addr(10), Addr(2)}

PoolAddresses == [n \in 1..(MAX_WORKERS + 1) |-> Addr(n)]

\* A device that answers every query of the vendor's script.
Healthy(v) ==
  CASE v = "huawei" ->
         [probe |-> "HwDescr", sysname |-> "SysNameText", model |-> "HwDescr",
          board1 |-> "HwBoardOper", board2 |-> "None",
          pon1 |-> "HwIfType", pon2 |-> "HwIfOper", ont |-> "HwOntRun"]
    [] v = "zte" ->
         [probe |-> "ZteDescr", sysname |-> "SysNameText", model |-> "ZteDescr",
          board1 |-> "ZteIfType", board2 |-> "ZteIfAdmin",
          pon1 |-> "ZteIfType", pon2 |-> "ZteIfOper", ont |-> "ZteOnuStatus"]
    [] v = "fiberhome" ->
         [probe |-> "FhDescr", sysname |-> "SysNameText", model |-> "FhDescr",
          board1 |-> "FhCardStatus", board2 |-> "FhCardType",
          pon1 |-> "FhPonType", pon2 |-> "FhPonName", ont |-> "FhOnuStatus"]

\* A device that answers nothing.
Silent == [s \in Sites |-> "None"]

\* A device that answers the probe and the identity queries, and no walk.
NoTables(v) ==
  [s \in Sites |-> IF s \in {"probe", "sysname", "model"} THEN Healthy(v)[s] ELSE "None"]

\* What a query may return instead of the working device's response.
Deviations(site) ==
  CASE site = "probe" -> {"None", "Empty", "NoValueText"}
    [] site = "sysname" -> {"None", "GarbageText"}
    [] site = "model" -> {"None", "NoValueText", "PlainDescr"}
    [] OTHER -> {"None", "Empty", "GarbageText", "StrayText"}

\* The devices that differ from the working device in the sites of D.
Deviating(v, D) ==
  {[s \in Sites |-> IF s \in D THEN f[s] ELSE Healthy(v)[s]] :
     f \in {g \in [D -> ResponseNames] :
              \A s \in D : g[s] \in Deviations(s)}}

\* The sequences over S of length at most n.
SeqsUpTo(S, n) == UNION {[1..k -> S] : k \in 0..n}

Range(f) == {f[i] : i \in DOMAIN f}

\* The state before main() has read anything.
Fresh ==
  /\ main_pc = "read"
  /\ ip_list = <<>>
  /\ task = <<>>
  /\ yielded = {}
  /\ results = <<>>
  /\ df = <<>>
  /\ summary = Summarize(<<>>)
  /\ steps = 0
  /\ call = NoCall

\* One device, any of its responses possibly deviating.
InitDevice ==
  /\ vendor \in Vendors
  /\ olt_txt = <<Addr(1)>>
  /\ \E D \in SUBSET Sites :
       /\ Cardinality(D) <= MaxDeviating
       /\ \E profile \in Deviating(vendor, D) :
            transport = [a \in {Addr(1)} |-> profile]
  /\ dispatch_fault = [a \in {Addr(1)} |-> NoFault]
  /\ Fresh

\* str(e) of an exception that leaves the call: a message, or the empty
\* string of an exception raised without arguments (MemoryError()).
FaultDescriptions == {"unexpected fault", ""}

\* A fleet of three: a working device, a silent one and one that answers
\* no walk or whose dispatch raises; any address list over them.
InitFleet ==
  /\ vendor \in Vendors
  /\ olt_txt \in SeqsUpTo(FleetAddresses, MaxLines)
  /\ transport = [a \in FleetAddresses |->
                    IF a = Addr(1) THEN Healthy(vendor)
                    ELSE IF a = Addr(10) THEN Silent
                    ELSE NoTables(vendor)]
  /\ dispatch_fault \in
       {[a \in FleetAddresses |-> NoFault]} \cup
       {[a \in FleetAddresses |-> IF a = Addr(2) THEN e ELSE NoFault] :
          e \in FaultDescriptions}
  /\ Fresh

\* More silent devices than the pool has workers, one listed twice.
InitPool ==
  /\ vendor = "huawei"
  /\ olt_txt = PoolAddresses \o <<Addr(1)>>
  /\ transport = [a \in Range(PoolAddresses) |-> Silent]
  /\ dispatch_fault = [a \in Range(PoolAddresses) |-> NoFault]
  /\ Fresh

Init == InitDevice \/ InitFleet \/ InitPool

Next ==
  \/ Load
  \/ \E i \in Tasks : Start(i)
  \/ \E i \in Tasks : Raise(i)
  \/ \E i \in Tasks : Probe(i)
  \/ \E i \in Tasks : Sysname(i)
  \/ \E i \in Tasks : Model(i)
  \/ \E i \in Tasks : Board(i)
  \/ \E i \in Tasks : Pon(i)
  \/ \E i \in Tasks : Ont(i)
  \/ \E i \in Tasks : Collect(i)
  \/ Finish

Spec == Init /\ [][Next]_vars

\* The call of task i can take its next step: its guard reads the position
\* of the call and the fault of its own address, nothing of another task.
TaskCanStep(i) ==
  \/ task[i].pc = "probe" /\ dispatch_fault[ip_list[i]] # NoFault
  \/ task[i].pc = "probe" /\ dispatch_fault[ip_list[i]] = NoFault
  \/ task[i].pc \in {"sysname", "model", "board", "pon", "ont"}

\* Some step of the run can be taken: main() can read the list, the pool
\* can start a future, a call being executed can go on, or the collecting
\* loop can take a finished future or end.
CanStep ==
  \/ main_pc = "read"
  \/ \E i \in Tasks : task[i].pc = "queued" /\ PoolHasIdleWorker
  \/ Running # {}
  \/ main_pc = "collect" /\ (Finished \ yielded # {} \/ yielded = Tasks)

\* The run takes one more step.
Tick == CanStep /\ steps' = steps + 1

\* The run under a fair scheduler: every subprocess call of run_snmp_command
\* returns (it has a timeout), so the process does not stop while one of its
\* threads can take a step.
FairSpec == Spec /\ WF_steps(Tick)

\* ----------------------------------------- the functions, called alone

\* Input sizes of the calls.
MaxComponents == 4

MaxRows == 2

\* sep.join(parts)
RECURSIVE Join(_, _)
Join(parts, sep) ==
  IF parts = <<>> THEN <<>>
  ELSE IF Len(parts) = 1 THEN parts[1]
  ELSE parts[1] \o sep \o Join(Tail(parts), sep)

\* One response line of snmpwalk / snmpget: "<identifier> = INTEGER: <value>".
Line(oid, value) ==
  oid \o <<" ", "=", " ", "I", "N", "T", "E", "G", "E", "R", ":", " ">> \o value

\* Identifiers: up to MaxComponents components joined by ".", a component
\* being a name, a digit group, nothing, or digits followed by a letter.
IdentifierComponents == {<<"a">>, <<"1">>, <<"2", "0">>, <<>>, <<"3", "x">>}

Identifiers ==
  {Join(cs, <<".">>) :
     cs \in UNION {[1..k -> IdentifierComponents] : k \in 1..MaxComponents}}

\* What run_snmp_command returns for a walk: None when the command failed
\* or timed out, else its stdout, one line per row of the table (no row:
\* the empty string).  A walk lists each instance of the table once.
Unanswered == [answered |-> FALSE, rows |-> <<>>]

Walks(Indices, Values) ==
  {Unanswered} \cup
  {[answered |-> TRUE, rows |-> rows] :
     rows \in {r \in SeqsUpTo([index : Indices, value : Values], MaxRows) :
                 \A j, k \in DOMAIN r : j # k => r[j].index # r[k].index}}

WalkOutput(w) ==
  IF ~w.answered THEN None
  ELSE Join([k \in DOMAIN w.rows |->
               Line(<<"t", ".">> \o w.rows[k].index, w.rows[k].value)],
            <<"\n">>)

\* The instances and the values of the tables the calls are given.
IfIndices ==
  {<<"2", "5", "6">>, <<"2", "5", "7">>, <<"5", "1", "2">>, <<"1">>, <<"x">>}

\* The instances the admin-status walk may list.
AdminIndices == {<<"2", "5", "6">>, <<"2", "5", "7">>, <<"1">>}

IfTypes == {<<"2", "5", "0">>, <<"6">>}

IfStatuses == {<<"1">>, <<"2">>}

PortIndices == {<<"1">>, <<"2">>, <<"3">>}

BoardIndices == {<<"0", ".", "1">>, <<"0", ".", "2">>, <<"1", ".", "1">>}

BoardStatuses == {<<"0">>, <<"2">>}

OnuIndices ==
  {<<"2", "5", "6", ".", "1">>, <<"2", "5", "6", ".", "2">>,
   <<"5", "1", "2", ".", "1">>}

OnuStatuses ==
  {<<"1">>, <<"2">>, <<"3">>, <<"4">>, <<"5">>, <<"6">>, <<"7">>, <<"9">>}

\* Fiberhome ONU statuses: 0 deregistered, 1 online, 2 offline, 3 unknown,
\* and a value outside the list.
FhOnuStatuses == {<<"0">>, <<"1">>, <<"2">>, <<"3">>, <<"9">>}

\* Texts decode_zte_ifindex is given: the two indices of its docstring,
\* small, large, signed, padded and underscored numbers, and texts int()
\* rejects.
IfIndexTexts ==
  {<<"2", "8", "5", "2", "7", "8", "4", "6", "5">>,
   <<"2", "8", "5", "2", "7", "8", "7", "2", "1">>,
   <<"0">>, <<"2", "5", "5">>, <<"2", "5", "6">>, <<"6", "5", "2", "8", "0">>,
   <<"6", "5", "5", "3", "6">>, <<"-", "1">>, <<"-", "2", "5", "7">>,
   <<"+", "5", "1", "2">>, <<" ", "7", "6", "8", " ">>, <<"1", "_", "0", "2", "4">>,
   <<>>, <<"x">>, <<"1", ".", "5">>, <<"1", "2", "a">>, <<"0", "x", "1", "0">>,
   <<"-">>, <<"1", "_">>, <<"1", " ", "2">>}

\* What the sysDescr query of get_olt_model may return, by name.
DescrNames ==
  {"None", "Empty", "HwDescr", "ZteDescr", "FhDescr", "SysNameText",
   "NoValueText", "PlainDescr", "GarbageText", "StrayText"}

\* The calls that can be made under the script of vendor v, before they run.
PendingCalls(v) ==
  {[function |-> "get_olt_model", done |-> FALSE, descr |-> d] : d \in DescrNames}
  \cup
  {[function |-> "parse_snmp_output", done |-> FALSE,
    oid |-> oid, full_index |-> b] : oid \in Identifiers, b \in BOOLEAN}
  \cup
  (IF v # "zte" THEN {}
   ELSE {[function |-> "decode_zte_ifindex", done |-> FALSE, ifindex |-> t] :
           t \in IfIndexTexts})
  \cup
  (CASE v = "zte" ->
          {[function |-> "get_board_status", done |-> FALSE,
            first |-> w1, second |-> w2] :
             w1 \in Walks(IfIndices, IfTypes), w2 \in Walks(AdminIndices, IfStatuses)}
     [] v = "huawei" ->
          {[function |-> "get_board_status", done |-> FALSE,
            first |-> w1, second |-> Unanswered] :
             w1 \in Walks(BoardIndices, BoardStatuses)}
     [] OTHER -> {})
  \cup
  (IF v = "fiberhome" THEN {}
   ELSE {[function |-> "get_pon_port_status", done |-> FALSE,
          first |-> w1, second |-> w2] :
           w1 \in Walks(PortIndices, IfTypes), w2 \in Walks(PortIndices, IfStatuses)})
  \cup
  (CASE v = "zte" ->
          {[function |-> "get_ont_status", done |-> FALSE, first |-> w1] :
             w1 \in Walks(OnuIndices, OnuStatuses)}
     [] v = "fiberhome" ->
          {[function |-> "get_ont_status", done |-> FALSE, first |-> w1] :
             w1 \in Walks(PortIndices, FhOnuStatuses)}
     [] OTHER -> {})

\* A call about to run, outside any run of main().
CallInit ==
  /\ vendor \in Vendors
  /\ call \in PendingCalls(vendor)
  /\ olt_txt = <<>>
  /\ transport = <<>>
  /\ dispatch_fault = <<>>
  /\ main_pc = "read"
  /\ ip_list = <<>>
  /\ task = <<>>
  /\ yielded = {}
  /\ results = <<>>
  /\ df = <<>>
  /\ summary = Summarize(<<>>)
  /\ steps = 0

\* The call f returns value.
Returns(f, value) ==
  /\ call.function = f
  /\ ~call.done
  /\ call' = [k \in DOMAIN call \cup {"value"} |->
                IF k = "value" THEN value
                ELSE IF k = "done" THEN TRUE
                ELSE call[k]]
  /\ UNCHANGED <<vendor, olt_txt, transport, dispatch_fault, main_pc, ip_list,
                 task, yielded, results, df, summary, steps>>

CallParse ==
  Returns("parse_snmp_output",
          parse_snmp_output(vendor, Line(call.oid, <<"2", "5", "0">>), call.full_index))

CallDecode ==
  Returns("decode_zte_ifindex", decode_zte_ifindex(call.ifindex))

CallBoard ==
  Returns("get_board_status",
          get_board_status(vendor, WalkOutput(call.first), WalkOutput(call.second)))

CallPon ==
  Returns("get_pon_port_status",
          get_pon_port_status(vendor, WalkOutput(call.first), WalkOutput(call.second)))

CallOnt ==
  Returns("get_ont_status", get_ont_status(vendor, WalkOutput(call.first)))

CallModel ==
  Returns("get_olt_model", get_olt_model(vendor, Text(call.descr)))

CallNext ==
  CallParse \/ CallDecode \/ CallBoard \/ CallPon \/ CallOnt \/ CallModel

CallSpec == CallInit /\ [][CallNext]_vars

\* ------------------------------------------------------------ the claims

\* The record of task i and the named responses of its device.
ResultOf(i) == task[i].result

DeviceOf(i) == transport[ip_list[i]]

\* The probe of task i got a response (neither None nor the empty string).
ProbeAnswered(i) == DeviceOf(i).probe \notin {"None", "Empty"}

AllMetricsZero(r) ==
  /\ r.board_installed = 0 /\ r.board_used = 0
  /\ r.pon_port_installed = 0 /\ r.pon_port_used = 0
  /\ r.ont_installed = 0 /\ r.ont_online = 0

\* C1: whenever the reachability probe of a device gets no response (None or
\* the empty string), collect_olt_data returns a record with status error,
\* every metric pair (0,0) and the reason "timeout/unreachable", in each of
\* the three vendor scripts.
C1_ProbeFailureRecord ==
  \A i \in Tasks :
    (task[i].pc = "returned" /\ ~ProbeAnswered(i)) =>
      /\ ResultOf(i).status = "error"
      /\ ResultOf(i).error = "timeout/unreachable"
      /\ AllMetricsZero(ResultOf(i))

\* C1 witness: the Fiberhome script returned the record of a device whose
\* probe came back as the empty string.
C1_Witness ==
  \E i \in Tasks :
    /\ vendor = "fiberhome"
    /\ task[i].pc = "returned"
    /\ DeviceOf(i).probe = "Empty"
    /\ ResultOf(i).error = "timeout/unreachable"

\* C2 (as claimed): whenever the probe got a response, the returned record
\* has status OK, whatever the later queries return.
C2_ProbeAnsweredImpliesOK ==
  \A i \in Tasks :
    (task[i].pc = "returned" /\ ProbeAnswered(i)) => ResultOf(i).status = "OK"

\* C3: once the run is over, results holds exactly one record for every
\* distinct address of the input and none for any other address; the
\* address list that is dispatched has no duplicate.
C3_OneRecordPerAddress ==
  /\ main_pc # "read" =>
       /\ Range(ip_list) = Range(olt_txt)
       /\ \A i, j \in DOMAIN ip_list : ip_list[i] = ip_list[j] => i = j
  /\ main_pc = "done" =>
       /\ \A a \in Range(olt_txt) :
            Cardinality({k \in DOMAIN results : results[k].ip = a}) = 1
       /\ \A k \in DOMAIN results : results[k].ip \in Range(olt_txt)

\* C3 witness: a finished run whose input listed an address twice, with one
\* task that raised and one that returned.
C3_Witness ==
  /\ main_pc = "done"
  /\ Len(olt_txt) > Cardinality(Range(olt_txt))
  /\ \E i, j \in Tasks : task[i].pc = "raised" /\ task[j].pc = "returned"

\* The sum of a field over the records at the positions of S.
RECURSIVE SumAt(_, _)
SumAt(S, key) ==
  IF S = {} THEN 0
  ELSE LET k == CHOOSE x \in S : TRUE
       IN results[k][key] + SumAt(S \ {k}, key)

OKPositions == {k \in DOMAIN results : results[k].status = "OK"}

MetricKeys ==
  {"board_installed", "board_used", "pon_port_installed", "pon_port_used",
   "ont_installed", "ont_online"}

\* C4: in the printed summary every metric total is the sum of that field
\* over the records with status OK only, the success count is the number of
\* OK records, the failure count the number of the others, and the two add up
\* to the number of records.
C4_SummaryOverOKRecords ==
  main_pc = "done" =>
    /\ \A key \in MetricKeys : summary[key] = SumAt(OKPositions, key)
    /\ summary.success = Cardinality(OKPositions)
    /\ summary.failed = Cardinality(DOMAIN results \ OKPositions)
    /\ summary.success + summary.failed = Len(results)
    /\ summary.total = Len(results)

\* C4 witness: a finished run with two OK records, one of them with boards,
\* and one error record.
C4_Witness ==
  /\ main_pc = "done"
  /\ Cardinality(OKPositions) = 2
  /\ \E k \in OKPositions : results[k].board_installed > 0
  /\ DOMAIN results \ OKPositions # {}

\* The walks a metric group of the vendor's script rests on.
GroupSites(v, group) ==
  CASE group = "board" -> IF v = "huawei" THEN {"board1"} ELSE {"board1", "board2"}
    [] group = "pon" -> {"pon1", "pon2"}
    [] group = "ont" -> {"ont"}

\* The pair a record holds for a metric group.
PairOf(r, group) ==
  CASE group = "board" -> <<r.board_installed, r.board_used>>
    [] group = "pon" -> <<r.pon_port_installed, r.pon_port_used>>
    [] group = "ont" -> <<r.ont_installed, r.ont_online>>

\* The other fields of an OK record are what the device's own responses to
\* the other queries give, whatever this group's responses were.
UnaffectedByOtherGroups(i) ==
  LET r == ResultOf(i)
      d == DeviceOf(i)
      board == get_board_status(vendor, Text(d.board1), Text(d.board2))
      pon == get_pon_port_status(vendor, Text(d.pon1), Text(d.pon2))
      ont == get_ont_status(vendor, Text(d.ont))
  IN /\ r.sysname = get_olt_sysname(Text(d.sysname))
     /\ r.model = get_olt_model(vendor, Text(d.model))
     /\ PairOf(r, "board") = <<board.installed, board.used>>
     /\ PairOf(r, "pon") = <<pon.installed, pon.used>>
     /\ PairOf(r, "ont") = <<ont.installed, ont.online>>

\* C5 (as claimed, for empty and unreachable responses): in a record with
\* status OK, a metric group one of whose walks came back empty or
\* unreachable has the pair (0,0), and the other fields are unaffected.
C5_AnyEmptyWalkZeroesThePair ==
  \A i \in Tasks :
    (task[i].pc = "returned" /\ ResultOf(i).status = "OK") =>
      /\ \A group \in {"board", "pon", "ont"} :
           (\E s \in GroupSites(vendor, group) : DeviceOf(i)[s] \in {"None", "Empty"})
             => PairOf(ResultOf(i), group) = <<0, 0>>
      /\ UnaffectedByOtherGroups(i)

\* C5 (amended): in a record with status OK, a metric group all of whose
\* walks came back empty or unreachable has the pair (0,0); and whatever a
\* group's walks return (empty, unreachable, malformed), the system name,
\* the model and the pairs of the other groups are what the device's
\* responses to their own queries give.
C5_IsolatedMetricGroups ==
  \A i \in Tasks :
    (task[i].pc = "returned" /\ ResultOf(i).status = "OK") =>
      /\ \A group \in {"board", "pon", "ont"} :
           (\A s \in GroupSites(vendor, group) : DeviceOf(i)[s] \in {"None", "Empty"})
             => PairOf(ResultOf(i), group) = <<0, 0>>
      /\ UnaffectedByOtherGroups(i)

\* C5 witness: an OK record of a device whose PON-port walks were both
\* unreachable while the board and the subscriber-unit walks answered: the
\* PON-port pair is (0,0), the other two pairs are not.
C5_Witness ==
  \E i \in Tasks :
    /\ task[i].pc = "returned" /\ ResultOf(i).status = "OK"
    /\ DeviceOf(i).pon1 = "None" /\ DeviceOf(i).pon2 = "None"
    /\ PairOf(ResultOf(i), "pon") = <<0, 0>>
    /\ ResultOf(i).board_installed > 0
    /\ ResultOf(i).ont_installed > 0

\* C6 (as claimed): in every record of results and every row of the sorted
\* frame, the error reason is non-empty exactly when the status is not OK.
C6_ReasonIffError ==
  /\ \A k \in DOMAIN results : (results[k].error # "") <=> (results[k].status # "OK")
  /\ \A k \in DOMAIN df : (df[k].error # "") <=> (df[k].status # "OK")

\* C7: the final frame has one row per collected record and its rows are in
\* strictly ascending order of address, whatever the completion order was.
C7_SortedByAddress ==
  main_pc = "done" =>
    /\ Len(df) = Len(results)
    /\ \A i, j \in DOMAIN df : i < j => StrLess(df[i].ip, df[j].ip)

\* C7 witness: a finished run of three devices that completed in descending
\* order of address.
C7_Witness ==
  /\ main_pc = "done"
  /\ Len(results) = 3
  /\ StrLess(results[3].ip, results[2].ip)
  /\ StrLess(results[2].ip, results[1].ip)

\* collect_olt_data(ip) as a function of the device's responses.
collect_olt_data(v, ip, d) ==
  LET r0 == NewResult(ip)
      r1 == [r0 EXCEPT !.sysname = get_olt_sysname(Text(d.sysname))]
      m == get_olt_model(v, Text(d.model))
      r2 == [r1 EXCEPT !.model = m]
      r3 == SetBoard(r2, get_board_status(v, Text(d.board1), Text(d.board2)))
      r4 == SetPon(r3, get_pon_port_status(v, Text(d.pon1), Text(d.pon2)))
  IN IF Falsy(Text(d.probe)) THEN ProbeFailed(r0)
     ELSE IF m = IndexError THEN Caught(r1, "list index out of range")
     ELSE SetOnt(r4, get_ont_status(v, Text(d.ont)))

\* What main() appends for an address, given the frozen responses.
RecordFor(ip) ==
  IF dispatch_fault[ip] # NoFault
  THEN Synthesized(ip, dispatch_fault[ip])
  ELSE collect_olt_data(vendor, ip, transport[ip])

\* The frame a run over the frozen responses must give, from the record of
\* every address: row k is the record of the address that has k - 1 smaller
\* addresses, with NaN in the columns it lacks.
FrameFor(recs) ==
  LET addresses == DOMAIN recs
      columns == UNION {DOMAIN recs[a] : a \in addresses}
      Nth(k) == CHOOSE a \in addresses :
                  Cardinality({b \in addresses : StrLess(b, a)}) = k - 1
  IN [k \in 1..Cardinality(addresses) |->
        LET rec == recs[Nth(k)]
        IN [c \in columns |-> IF c \in DOMAIN rec THEN rec[c] ELSE NaN]]

\* The sum of a field over the OK records of the addresses of S.
RECURSIVE SumFor(_, _, _)
SumFor(recs, S, key) ==
  IF S = {} THEN 0
  ELSE LET a == CHOOSE x \in S : TRUE
       IN (IF recs[a].status = "OK" THEN recs[a][key] ELSE 0)
          + SumFor(recs, S \ {a}, key)

\* C8: the sorted frame and the summary of a finished run are functions of
\* the address set and the frozen transport responses alone: two runs over
\* the same inputs give the same frame and the same totals, whatever the
\* interleaving and the completion order.
C8_OutputDeterminedByInputs ==
  main_pc = "done" =>
    LET addresses == Range(olt_txt)
        recs == [a \in addresses |-> RecordFor(a)]
        ok == {a \in addresses : recs[a].status = "OK"}
    IN /\ df = FrameFor(recs)
       /\ \A key \in MetricKeys : summary[key] = SumFor(recs, addresses, key)
       /\ summary.total = Cardinality(addresses)
       /\ summary.success = Cardinality(ok)
       /\ summary.failed = Cardinality(addresses \ ok)

\* C8 witness: a finished run of three devices whose completion order is not
\* the order of the frame.
C8_Witness ==
  /\ main_pc = "done"
  /\ Len(results) = 3
  /\ results[1].ip # df[1].ip
  /\ results[3].status = "OK"

\* A step of the run leaves the entries of all tasks but one unchanged, a
\* step of a task leaves main()'s state unchanged, and what a task's step
\* writes is determined by that task's own entry and its own device.
TaskStepsAreLocal ==
  /\ \A i, j \in Tasks :
       (i \in DOMAIN task' /\ j \in DOMAIN task' /\ i # j /\ task'[i] # task[i])
         => task'[j] = task[j]
  /\ (Tasks # {} /\ task' # task) =>
       /\ results' = results /\ yielded' = yielded
       /\ df' = df /\ summary' = summary /\ main_pc' = main_pc
  /\ \A i \in Tasks :
       (i \in Running /\ task'[i] # task[i] /\ task'[i].pc = "returned")
         => task'[i].result = collect_olt_data(vendor, ip_list[i], DeviceOf(i))

\* C9: at every moment at most MAX_WORKERS tasks are being executed, and
\* every step of a task touches that task's entry only: results is the only
\* state written on behalf of more than one device, and only by main().
C9_BoundedPoolIsolatedTasks ==
  /\ [](Cardinality(Running) <= MAX_WORKERS)
  /\ [][TaskStepsAreLocal]_vars

\* C9 witness: every worker of the pool is busy and a further task waits.
C9_Witness ==
  /\ Cardinality(Running) = MAX_WORKERS
  /\ \E i \in Tasks : task[i].pc = "queued"

\* C10: a fault raised after the probe succeeded does not leave
\* collect_olt_data: the task returns (it never ends as raised), its record
\* has status error and the fault's description as reason, the system name
\* computed before the fault is kept and the fields not yet reached are at
\* their defaults.
C10_CaughtFaultKeepsPartialRecord ==
  \A i \in Tasks :
    /\ (task[i].pc = "raised") => dispatch_fault[ip_list[i]] # NoFault
    /\ (task[i].pc = "returned" /\ ProbeAnswered(i) /\ ResultOf(i).status # "OK") =>
         /\ get_olt_model(vendor, Text(DeviceOf(i).model)) = IndexError
         /\ ResultOf(i).status = "error"
         /\ ResultOf(i).error = "list index out of range"
         /\ ResultOf(i).sysname = get_olt_sysname(Text(DeviceOf(i).sysname))
         /\ ResultOf(i).model = <<>>
         /\ AllMetricsZero(ResultOf(i))

\* C10 witness: a returned record with the IndexError's description as
\* reason and the system name, computed before the fault, in place.
C10_Witness ==
  \E i \in Tasks :
    /\ task[i].pc = "returned"
    /\ ResultOf(i).error = "list index out of range"
    /\ ResultOf(i).sysname = <<"O", "L", "T", "-", "1">>

\* C11: when the call of one address raises, main() appends for that
\* address the record {ip, status "error", error str(e)} and goes on: it
\* stays in its collecting loop, and at the end of the run every other
\* address has the record its own task returned.
C11_RaisedDispatchIsRecorded ==
  /\ (\E i \in Tasks : task[i].pc = "raised") => main_pc \in {"collect", "done"}
  /\ \A i \in yielded :
       \E k \in DOMAIN results :
         /\ results[k].ip = ip_list[i]
         /\ task[i].pc = "raised" =>
              results[k] = [ip |-> ip_list[i], status |-> "error",
                            error |-> dispatch_fault[ip_list[i]]]
         /\ task[i].pc = "returned" => results[k] = task[i].result
  /\ main_pc = "done" => yielded = Tasks

\* C11 witness: the run is over; the record of the call that raised was
\* collected first, and the records of a working and of a silent device
\* were collected after it.
C11_Witness ==
  /\ main_pc = "done"
  /\ Len(results) = 3
  /\ DOMAIN results[1] = {"ip", "status", "error"}
  /\ results[1].error = "unexpected fault"
  /\ \E k \in 2..3 : results[k].status = "OK"
  /\ \E k \in 2..3 : results[k].error = "timeout/unreachable"

\* C12: under a fair scheduler, with every transport call returning, every
\* submitted task eventually has returned or raised, and the run eventually
\* is over with every task collected; a task that is being executed can
\* always take its next step, whatever the other tasks are doing, and the
\* run can take a step as long as it is not over.
C12_EveryTaskEndsAndRunFinishes ==
  /\ <>(/\ main_pc \in {"done", "exit"}
        /\ \A i \in Tasks : task[i].pc \in {"returned", "raised"}
        /\ yielded = Tasks)
  /\ [](\A i \in Running : TaskCanStep(i))
  /\ [](CanStep <=> main_pc \notin {"done", "exit"})

\* C12 witness: the run over more devices than the pool has workers is over.
C12_Witness ==
  /\ main_pc = "done"
  /\ Len(ip_list) = MAX_WORKERS + 1
  /\ Len(results) = MAX_WORKERS + 1

\* C13 (as claimed): in every returned record the system name is "Unknown"
\* when the probe failed or the system-name query returned nothing, and the
\* model is "Unknown" when the probe failed or the model query returned
\* nothing.
C13_UnknownWhenUndetermined ==
  \A i \in Tasks :
    task[i].pc = "returned" =>
      /\ (~ProbeAnswered(i) \/ DeviceOf(i).sysname \in {"None", "Empty"})
           => ResultOf(i).sysname = Unknown
      /\ (~ProbeAnswered(i) \/ DeviceOf(i).model \in {"None", "Empty"})
           => ResultOf(i).model = Unknown

\* The moves of a call between its positions, as the state machine of the
\* device run has them: Probing (probe), Identifying (sysname, model),
\* CollectingMetrics (board, pon, ont), then Done; Failed from Probing only.
StateMachineMoves ==
  {<<"queued", "probe">>, <<"probe", "sysname">>, <<"probe", "returned">>,
   <<"probe", "raised">>, <<"sysname", "model">>, <<"model", "board">>,
   <<"board", "pon">>, <<"pon", "ont">>, <<"ont", "returned">>}

\* C14 (as claimed): every step of a call moves it along the state machine,
\* one query after the other; a call ends with an error record only from the
\* probe, and with an OK record only after the subscriber-unit query.
C14_StatesInOrder ==
  [][\A i \in Tasks :
       (i \in DOMAIN task' /\ task'[i] # task[i]) =>
         /\ <<task[i].pc, task'[i].pc>> \in StateMachineMoves
         /\ (task'[i].pc = "returned" /\ task'[i].result.status # "OK")
              => task[i].pc = "probe"
         /\ (task'[i].pc = "returned" /\ task'[i].result.status = "OK")
              => task[i].pc = "ont"]_vars

\* A finished call of f.
Called(f) == call.function = f /\ call.done

\* c is a digit group.
IsDigitGroup(c) == c # <<>> /\ \A i \in 1..Len(c) : c[i] \in Digits

\* The number of digit groups at the end of the identifier, each of them
\* following a "." (so the first component is never one of them).
TrailingDigitGroups(oid) ==
  LET cs == split(oid, ".")
      n == Len(cs)
      run(k) == \A j \in (n - k + 1)..n : IsDigitGroup(cs[j])
  IN CHOOSE k \in 0..(n - 1) : run(k) /\ \A m \in (k + 1)..(n - 1) : ~run(m)

\* The last k components of the identifier, dots included.
LastGroups(oid, k) ==
  LET cs == split(oid, ".")
  IN Join(SubSeq(cs, Len(cs) - k + 1, Len(cs)), <<".">>)

\* The parsed line maps index to the value of the line, and nothing else.
ParsedAs(index) ==
  DOMAIN call.value = {index} /\ call.value[index] = <<"2", "5", "0">>

\* C15 as stated: the index is the last component in the trailing-scalar
\* mode and, in the full-compound mode of every vendor's parser, the longest
\* trailing run of digit groups, the last component when there is no run.
C15_LongestRunInEveryVariant ==
  Called("parse_snmp_output") =>
    ParsedAs(IF call.full_index /\ TrailingDigitGroups(call.oid) >= 1
             THEN LastGroups(call.oid, TrailingDigitGroups(call.oid))
             ELSE LastGroups(call.oid, 1))

\* C15, amended: as above for Huawei and Fiberhome; the ZTE parser takes
\* exactly the last two digit groups in the full-compound mode, and the last
\* component when the identifier ends in fewer than two.
C15_TableIndexPerVariant ==
  Called("parse_snmp_output") =>
    LET k == TrailingDigitGroups(call.oid)
    IN ParsedAs(IF call.full_index /\ vendor = "zte" /\ k >= 2
                THEN LastGroups(call.oid, 2)
                ELSE IF call.full_index /\ vendor # "zte" /\ k >= 1
                THEN LastGroups(call.oid, k)
                ELSE LastGroups(call.oid, 1))

\* A ZTE full-compound parse of an identifier ending in three digit groups.
C15_Witness ==
  /\ Called("parse_snmp_output")
  /\ vendor = "zte"
  /\ call.full_index
  /\ call.oid = <<"a", ".", "1", ".", "2", "0", ".", "1">>
  /\ DOMAIN call.value = {<<"2", "0", ".", "1">>}

\* The byte of n above its lowest byte: the s with n = (q * 256 + s) * 256 + r.
SlotByte(n) ==
  CHOOSE slot \in 0..255 : \E r \in 0..255 : (n - 256 * slot - r) % 65536 = 0

\* The decimal texts of 0..255.
SlotTexts == {str(k) : k \in 0..255}

\* t is a decimal numeral.
IsNumeral(t) == t # <<>> /\ \A i \in 1..Len(t) : t[i] \in Digits

\* t is empty or has a character that no number has.
NotANumber(t) ==
  t = <<>> \/ \E i \in 1..Len(t) : t[i] \notin Digits \cup Whitespace \cup {"+", "-", "_"}

\* C16: decode_zte_ifindex gives the slot (index >> 8) & 0xFF of every
\* numeric index, 1 for 285278465 and 2 for 285278721, always a slot in
\* 0..255 when it gives one, and no slot for a non-numeric index.
C16_SlotOfNumericIndex ==
  Called("decode_zte_ifindex") =>
    /\ IsNumeral(call.ifindex) =>
         call.value = str(SlotByte(DecimalValue(call.ifindex)))
    /\ call.ifindex = <<"2", "8", "5", "2", "7", "8", "4", "6", "5">> =>
         call.value = <<"1">>
    /\ call.ifindex = <<"2", "8", "5", "2", "7", "8", "7", "2", "1">> =>
         call.value = <<"2">>
    /\ call.value \in SlotTexts \cup {None}
    /\ NotANumber(call.ifindex) => call.value = None

C16_Witness ==
  /\ Called("decode_zte_ifindex")
  /\ call.ifindex = <<"2", "8", "5", "2", "7", "8", "7", "2", "1">>
  /\ call.value = <<"2">>

\* The rows of a walk and the rows with a given value.
RowsOf(w) == {w.rows[k] : k \in DOMAIN w.rows}

RowsWith(w, values) == {r \in RowsOf(w) : r.value \in values}

\* The GPON rows of the interface-type walk whose index is a number, and the
\* slot such a row lies in.
GponRows(w) == {r \in RowsWith(w, {<<"2", "5", "0">>}) : IsNumeral(r.index)}

SlotOf(r) == SlotByte(DecimalValue(r.index))

\* C17: the ZTE board status counts the distinct slots decoded from the
\* indices of the rows of type 250 as installed, slot 0 included, and as
\* used those of them with a port of type 250 whose admin status is 1.
C17_ZteBoardsAreDistinctSlots ==
  (Called("get_board_status") /\ vendor = "zte") =>
    LET gpon == GponRows(call.first)
        up == {r.index : r \in RowsWith(call.second, {<<"1">>})}
    IN /\ call.value.installed = Cardinality({SlotOf(r) : r \in gpon})
       /\ call.value.used =
            Cardinality({SlotOf(r) : r \in {g \in gpon : g.index \in up}})

\* Ports in slot 0 and in slot 1, the port of slot 0 admin up.
C17_Witness ==
  /\ Called("get_board_status")
  /\ vendor = "zte"
  /\ {r.index : r \in GponRows(call.first)} = {<<"1">>, <<"2", "5", "6">>}
  /\ RowsWith(call.second, {<<"1">>}) = {[index |-> <<"1">>, value |-> <<"1">>]}
  /\ call.value = [installed |-> 2, used |-> 1]

\* The walk gave a non-empty response.
NonEmpty(w) == w.answered /\ w.rows # <<>>

\* The rows of the interface-type walk with value 250, and those of them
\* whose index has operational status 1 in the other walk.
PonRows(types) == RowsWith(types, {<<"2", "5", "0">>})

PonRowsUp(types, oper) ==
  {r \in PonRows(types) : r.index \in {u.index : u \in RowsWith(oper, {<<"1">>})}}

\* C18 as stated: for Huawei and ZTE, installed is the number of rows of
\* type 250 and used the number of those with operational status 1, for
\* every pair of responses, an empty or unanswered status walk included.
C18_PonCountsForEveryPair ==
  Called("get_pon_port_status") =>
    /\ call.value.installed = Cardinality(PonRows(call.first))
    /\ call.value.used = Cardinality(PonRowsUp(call.first, call.second))

\* C18, amended: the counts are those when both responses are non-empty;
\* when either walk is empty or unanswered, installed and used are both 0.
C18_PonCountsWhenBothAnswered ==
  Called("get_pon_port_status") =>
    IF NonEmpty(call.first) /\ NonEmpty(call.second)
    THEN /\ call.value.installed = Cardinality(PonRows(call.first))
         /\ call.value.used = Cardinality(PonRowsUp(call.first, call.second))
    ELSE call.value = Zero

\* Two ports of type 250 and no answer to the operational-status walk.
C18_Witness ==
  /\ Called("get_pon_port_status")
  /\ Cardinality(PonRows(call.first)) = 2
  /\ ~call.second.answered
  /\ call.value = Zero

\* C19: the Huawei board status counts the rows of the board
\* operational-status table as installed and the rows whose value is the
\* normal code 0 as used, also when two rows share their last index component.
C19_HuaweiBoardsAreRows ==
  (Called("get_board_status") /\ vendor = "huawei") =>
    /\ call.value.installed = Len(call.first.rows)
    /\ call.value.used = Cardinality(RowsWith(call.first, {<<"0">>}))

\* C20: the ZTE subscriber-unit status counts every row of the status table
\* as installed and the rows with status 1, 3 or 4 as online; a row with
\* another status counts as installed only.
C20_ZteOnuOnlineCodes ==
  (Called("get_ont_status") /\ vendor = "zte") =>
    /\ call.value.installed = Len(call.first.rows)
    /\ call.value.online =
         Cardinality(RowsWith(call.first, {<<"1">>, <<"3">>, <<"4">>}))

\* A unit in sync and an offline unit.
C20_Witness ==
  /\ Called("get_ont_status")
  /\ vendor = "zte"
  /\ {r.value : r \in RowsOf(call.first)} = {<<"3">>, <<"7">>}
  /\ call.value = [installed |-> 2, online |-> 1]

\* C21: the Fiberhome subscriber-unit status leaves the rows with status 0
\* out of installed, counts the rows with status 1 as installed and online,
\* and the rows with any other status as installed only.
C21_FiberhomeOnuCodes ==
  (Called("get_ont_status") /\ vendor = "fiberhome") =>
    /\ call.value.installed =
         Cardinality(RowsOf(call.first) \ RowsWith(call.first, {<<"0">>}))
    /\ call.value.online = Cardinality(RowsWith(call.first, {<<"1">>}))
    /\ call.value.online <= call.value.installed

\* A deregistered unit and an offline unit.
C21_Witness ==
  /\ Called("get_ont_status")
  /\ vendor = "fiberhome"
  /\ {r.value : r \in RowsOf(call.first)} = {<<"0">>, <<"2">>}
  /\ call.value = [installed |-> 1, online |-> 0]

\* The model-family name of the vendor's pattern, in lower case.
FamilyName(v) ==
  IF v = "huawei" THEN <<"m", "a", "5", "8", "0", "0", "-">>
  ELSE <<"a", "n", "6", "0", "0", "0">>

\* The description names a model of the vendor's family.
NamesFamily(v, output) ==
  IF v = "huawei"
  THEN \E i \in 1..Len(output) :
         /\ StartsAt(output, i, <<"M", "A", "5", "8", "0", "0", "-">>)
         /\ i + 7 <= Len(output)
         /\ output[i + 7] \notin Whitespace
  ELSE Contains(lower(output), FamilyName(v))

\* The whitespace-delimited tokens that follow the type tag of the response
\* value (the text after the first "="), none when there is no value.
TokensAfterTag(output) ==
  IF Find(output, "=") = 0 THEN <<>>
  ELSE split_ws(strip_tag(strip(split1(output, "=")[2], Whitespace)))

\* C22: get_olt_model of the Huawei and Fiberhome scripts returns the match
\* of the vendor pattern when the response has one, otherwise the first token
\* after the type tag of the response value, otherwise "Unknown", and raises
\* for no response.
C22_ModelMatchTokenOrUnknown ==
  (Called("get_olt_model") /\ vendor \in {"huawei", "fiberhome"}) =>
    LET output == Text(call.descr)
    IN /\ call.value # IndexError
       /\ IF Falsy(output) THEN call.value = Unknown
          ELSE IF NamesFamily(vendor, output)
          THEN StartsAt(lower(call.value), 1, FamilyName(vendor))
          ELSE IF TokensAfterTag(output) # <<>>
          THEN call.value = TokensAfterTag(output)[1]
          ELSE call.value = Unknown

\* The records of the run: those the calls hold and those main() collected.
Records ==
  {task[i].result : i \in {j \in Tasks : task[j].pc # "raised"}}
  \cup {results[k] : k \in DOMAIN results}

\* C23: in every record used <= installed for the boards and online <=
\* installed for the subscriber units, and in the records of the Huawei and
\* ZTE scripts also used <= installed for the PON ports.
C23_UsedWithinInstalled ==
  \A r \in Records :
    /\ Get(r, "board_used") <= Get(r, "board_installed")
    /\ Get(r, "ont_online") <= Get(r, "ont_installed")
    /\ vendor \in {"huawei", "zte"} =>
         Get(r, "pon_port_used") <= Get(r, "pon_port_installed")

\* A ZTE record with fewer used than installed in each of the three pairs.
C23_Witness ==
  /\ vendor = "zte"
  /\ \E r \in Records :
       /\ r.status = "OK"
       /\ 0 < r.board_used /\ r.board_used < r.board_installed
       /\ 0 < r.pon_port_used /\ r.pon_port_used < r.pon_port_installed
       /\ 0 < r.ont_online /\ r.ont_online < r.ont_installed

\* C24 as stated: in every record the ZTE script returns, the installed
\* boards are at most the installed PON ports.
C24_ZteBoardsWithinPonPorts ==
  vendor = "zte" =>
    \A i \in Tasks : task[i].pc = "returned" =>
      ResultOf(i).board_installed <= ResultOf(i).pon_port_installed

\* C24, amended: this holds for a device that gives the PON-port derivation
\* the interface-type response it gave the board derivation, and a non-empty
\* operational-status response.
C24_ZteBoardsWithinPonPortsSameWalk ==
  vendor = "zte" =>
    \A i \in Tasks :
      (/\ task[i].pc = "returned"
       /\ DeviceOf(i).pon1 = DeviceOf(i).board1
       /\ ~Falsy(Text(DeviceOf(i).pon2))) =>
        ResultOf(i).board_installed <= ResultOf(i).pon_port_installed

\* A ZTE record with two boards and three PON ports, from the same
\* interface-type response.
C24_Witness ==
  /\ vendor = "zte"
  /\ \E i \in Tasks :
       /\ task[i].pc = "returned"
       /\ DeviceOf(i).pon1 = DeviceOf(i).board1
       /\ ~Falsy(Text(DeviceOf(i).pon2))
       /\ ResultOf(i).board_installed = 2
       /\ ResultOf(i).pon_port_installed = 3
====
